---- MODULE Spec2Model ----
(***************************************************************************)
(* Geodesic ray integrator of the WebGPU black-hole renderer.              *)
(*                                                                         *)
(* One behaviour is the evaluation of createBlackHoleShader for one pixel: *)
(* the ray state (rayPos, prevPos, rayDir, color, alpha, escaped,          *)
(* captured) of the Loop(64) body, the post-loop classification, the       *)
(* background blend and the returned pixel.                                *)
(*                                                                         *)
(* The repository holds two versions of createBlackHoleShader: one scales  *)
(* the step by a horizon-proximity factor ("adaptive"), the other uses     *)
(* uniforms.stepSize directly ("fixed").  The variable variant selects     *)
(* the version; everything else of the two loops is identical.             *)
(*                                                                         *)
(* Shader floats are fixed-point integers: positions, parameters and       *)
(* opacities in units of 1/Scale, direction vectors in units of 1/DScale.  *)
(* Colours are one channel.  The hash-based fields (starField,             *)
(* nebulaField, fbm) are not computed: each sample is any value of         *)
(* StarFieldValues, NebulaFieldValues or RingOpacityValues, the blackbody  *)
(* colour any value of DiskColorValues, and the direction a background     *)
(* field was sampled with is recorded next to the sample.                  *)
(***************************************************************************)
EXTENDS Integers, Sequences, FiniteSets, TLC

(* ------------------------------------------------------------------ *)
(* Fixed-point arithmetic                                              *)
(* ------------------------------------------------------------------ *)
Scale == 10 * 10 * 10
DScale == 10 * Scale
One == Scale
Half == Scale \div 2

Abs(a) == IF a < 0 THEN -a ELSE a
Max2(a, b) == IF a > b THEN a ELSE b
Min2(a, b) == IF a < b THEN a ELSE b

\* the element of a one-element set; {e : x \in {v}} evaluates v once
Only(S) == CHOOSE x \in S : TRUE

\* round-to-nearest quotient, b > 0
RDiv(a, b) == Only({(a + d \div 2) \div d : d \in {b}})

\* product of two 1/Scale numbers
Mul(a, b) == RDiv(a * b, Scale)

\* quotient of two 1/Scale numbers, b # 0
Div(a, b) ==
    Only({IF d > 0 THEN RDiv(a * Scale, d) ELSE -RDiv(a * Scale, -d) : d \in {b}})

clamp(x, lo, hi) == Only({Max2(lo, Min2(hi, y)) : y \in {x}})

\* smoothstep(edge0, edge1, x): t = clamp((x-edge0)/(edge1-edge0),0,1); t*t*(3-2t)
smoothstep(edge0, edge1, x) ==
    Only({Mul(Mul(t, t), 3 * One - 2 * t)
            : t \in {clamp(Div(x - edge0, edge1 - edge0), 0, One)}})

\* mix(a, b, t) = a + (b - a) * t
mix(a, b, t) == Only({c + Mul(b - c, t) : c \in {a}})

RECURSIVE NewtonSqrt(_, _)
NewtonSqrt(n, x) ==
    Only({IF y >= x THEN x ELSE NewtonSqrt(n, y) : y \in {(x + n \div x) \div 2}})

\* floor of the square root of n >= 0
sqrt(n) ==
    Only({IF m = 0 THEN 0 ELSE NewtonSqrt(m, Max2(1, Min2(m, 46340))) : m \in {n}})

\* square root of a 1/Scale number
sqrtFix(x) == sqrt(x * Scale)

\* length(v): Euclidean norm; components above 26000 cannot be squared and
\* summed in 31 bits, so large vectors are measured at a coarser grain
RECURSIVE length(_)
length(v) ==
    Only({IF Max2(Abs(w[1]), Max2(Abs(w[2]), Abs(w[3]))) <= 26000
          THEN sqrt(w[1] * w[1] + w[2] * w[2] + w[3] * w[3])
          ELSE 8 * length(<<RDiv(Abs(w[1]), 8), RDiv(Abs(w[2]), 8), RDiv(Abs(w[3]), 8)>>)
            : w \in {v}})

VAdd(a, b) == <<a[1] + b[1], a[2] + b[2], a[3] + b[3]>>
VSub(a, b) == <<a[1] - b[1], a[2] - b[2], a[3] - b[3]>>

SDiv(a, b) == Only({IF n >= 0 THEN RDiv(n, b) ELSE -RDiv(-n, b) : n \in {a}})

\* v * s / d, componentwise
VScale(v, s, d) ==
    Only({<<SDiv(a[1][1] * a[2], a[3]), SDiv(a[1][2] * a[2], a[3]),
            SDiv(a[1][3] * a[2], a[3])>> : a \in {<<v, s, d>>}})

\* normalize(v): unit vector in units of 1/DScale; v # 0
normalize(v) == Only({VScale(w, DScale, length(w)) : w \in {v}})

\* cross(a, b) of two 1/DScale vectors
cross(a, b) ==
    <<SDiv(a[2] * b[3] - a[3] * b[2], DScale),
      SDiv(a[3] * b[1] - a[1] * b[3], DScale),
      SDiv(a[1] * b[2] - a[2] * b[1], DScale)>>

(* ------------------------------------------------------------------ *)
(* Parameter set (shader uniforms)                                     *)
(* ------------------------------------------------------------------ *)
MaxIterations == 64
EscapeRadius == 100 * Scale
CaptureFactor == 1010
OpaqueAlpha == 990

\* QUALITY_PRESETS: stepSize, starsEnabled, nebulaEnabled
QUALITY_PRESETS ==
    [low    |-> [stepSize |-> 400, starsEnabled |-> 0,   nebulaEnabled |-> 0],
     medium |-> [stepSize |-> 300, starsEnabled |-> One, nebulaEnabled |-> 0],
     high   |-> [stepSize |-> 200, starsEnabled |-> One, nebulaEnabled |-> One],
     ultra  |-> [stepSize |-> 150, starsEnabled |-> One, nebulaEnabled |-> One]]

\* defaultConfig, as far as the integrator reads it
defaultConfig ==
    [blackHoleMass |-> 1000,
     diskInnerRadius |-> 3000,
     diskOuterRadius |-> 12000,
     diskEdgeSoftnessInner |-> 150,
     diskEdgeSoftnessOuter |-> 150,
     gravitationalLensing |-> 1500,
     stepSize |-> 300,
     starsEnabled |-> One,
     nebulaEnabled |-> 0,
     starBackgroundColor |-> 0]

\* defaultConfig as main.js writes it: the colour is a hex string, written
\* [hex |-> s] to tell it from a colour object [r, g, b] (the flags true and
\* false stay written 1 and 0), with keys the UI binds besides those above
fullDefaultConfig ==
    [defaultConfig EXCEPT !.starBackgroundColor = [hex |-> "#000000"]]
      @@ [diskTemperature |-> 5000,
          temperatureFalloff |-> 750,
          diskRotationSpeed |-> 300,
          turbulenceStretch |-> 5000,
          turbulenceCycleTime |-> 10 * Scale,
          turbulenceLacunarity |-> 2000]

\* the camera of main.js and the look-at target
DefaultCameraPosition == <<0, 5000, 20000>>
DefaultCameraTarget == <<0, 0, 0>>

Variants == {"adaptive", "fixed"}

(* ------------------------------------------------------------------ *)
(* Inputs of one evaluation                                            *)
(* ------------------------------------------------------------------ *)
\* pixels sampled per half axis of the screen, which spans -1..1
MaxScreen == 1
\* the turbulence sample takes the values k/RingLevels and 0.99
RingLevels == 2

ScreenCoords == {(k * One) \div MaxScreen : k \in -MaxScreen..MaxScreen}
RingOpacityValues == {(k * One) \div RingLevels : k \in 0..RingLevels} \cup {OpaqueAlpha}
DiskColorValues == {2 * One}
StarFieldValues == {0, 300}
NebulaFieldValues == {0, 150}

\* camera poses: the default pose, poses near the disk whose rays cross the
\* disk plane inside the disk and on its two edges, poses inside the capture
\* radius and poses beyond the escape radius
CameraPoses ==
    { [pos |-> DefaultCameraPosition, target |-> DefaultCameraTarget],
      [pos |-> <<0, 200, 9000>>,      target |-> <<0, 0, 0>>],
      [pos |-> <<2000, 3000, 5000>>,  target |-> <<0, 0, 0>>],
      [pos |-> <<0, 4800, 10000>>,    target |-> <<0, 0, 0>>],
      [pos |-> <<0, 500, 1500>>,      target |-> <<0, 0, 0>>],
      [pos |-> <<0, 100, 2005>>,      target |-> <<0, 0, 0>>],
      [pos |-> <<0, 30000, 120000>>,  target |-> <<0, 0, 0>>],
      [pos |-> <<0, 30000, 120000>>,  target |-> <<0, 40000, 160000>>] }

Masses == {1000, 1500}

ParameterSets ==
    { [defaultConfig EXCEPT !.blackHoleMass = m,
                            !.stepSize = QUALITY_PRESETS[q].stepSize,
                            !.starsEnabled = QUALITY_PRESETS[q].starsEnabled,
                            !.nebulaEnabled = QUALITY_PRESETS[q].nebulaEnabled]
        : m \in Masses, q \in DOMAIN QUALITY_PRESETS }

(* ------------------------------------------------------------------ *)
(* Camera setup                                                        *)
(* ------------------------------------------------------------------ *)
worldUp == <<0, DScale, 0>>
fov == One

camForward(pose) == normalize(VSub(pose.target, pose.pos))
camRight(pose) == normalize(cross(worldUp, camForward(pose)))
camUp(pose) == cross(camForward(pose), camRight(pose))

\* ray direction through the pixel at screenPos = <<x, y>>
InitialRayDir(pose, screenPos) ==
    normalize(VAdd(VAdd(VScale(camForward(pose), fov, Scale),
                        VScale(camRight(pose), screenPos[1], Scale)),
                   VScale(camUp(pose), screenPos[2], Scale)))

(* ------------------------------------------------------------------ *)
(* Accretion disk shading                                              *)
(* ------------------------------------------------------------------ *)
\* accretionDiskColor(hitR, ...): rgb is blackbodyColor(tempK) * diskBrightness
\* (one channel), turbulence is the clamped, sharpened fbm crossfade
accretionDiskColor(u, hitR, rgb, ringOpacity) ==
    LET innerR == u.diskInnerRadius
        outerR == u.diskOuterRadius
        normR == clamp(Div(hitR - innerR, outerR - innerR), 0, One)
        edgeFalloff == Mul(smoothstep(0, u.diskEdgeSoftnessInner, normR),
                           smoothstep(One, One - u.diskEdgeSoftnessOuter, normR))
    IN  [rgb |-> rgb, w |-> Mul(ringOpacity, edgeFalloff)]

\* a shader float that may be not-a-number
Num(v) == [finite |-> TRUE, v |-> v]
NaN == [finite |-> FALSE, v |-> 0]

\* cycleLength = uniforms.turbulenceCycleTime, used as it is
cycleLength(u) == u.turbulenceCycleTime

\* cyclicTime = time.mod(cycleLength); the remainder by zero is not a number
cyclicTime(time, L) == IF L = 0 THEN NaN ELSE Num(time % L)

\* blendFactor = cyclicTime.div(cycleLength)
blendFactor(c, L) == IF ~c.finite \/ L = 0 THEN NaN ELSE Num(Div(c.v, L))

\* pow(hitR, 1.5)
hitR15(hitR) == Mul(hitR, sqrtFix(hitR))

\* keplerianPhase = timeBasis * diskRotationSpeed / pow(hitR, 1.5)
keplerianPhase(timeBasis, u, hitR) ==
    Div(Mul(timeBasis, u.diskRotationSpeed), hitR15(hitR))

\* fbm(noiseCoord) as a function of the rotated angle: the noise is a
\* continuous interpolation of hashed lattice values; here the lattice is
\* one-dimensional, its values are an input, the interpolation is linear
NoiseCell == Half
NoiseSlope == One \div NoiseCell
turbulenceNoise(lattice, angle) ==
    LET n == Len(lattice)
        cell == (angle \div NoiseCell) % n
        f == angle % NoiseCell
        a == lattice[cell + 1]
        b == lattice[((cell + 1) % n) + 1]
    IN  a + ((b - a) * f) \div NoiseCell

\* deviation: the two phases swapped in the crossfade
crossfade_swapped(turbulence2, turbulence1, blend) == mix(turbulence1, turbulence2, blend)

\* turbulence = mix(turbulence2, turbulence1, blendFactor)
crossfade(turbulence2, turbulence1, blend) == mix(turbulence2, turbulence1, blend)

\* the blended turbulence for a cyclic time c within a cycle of length L > 0
turbulenceAt(lattice, u, hitR, hitAngle, c) ==
    LET L == cycleLength(u)
        turbulence1 == turbulenceNoise(lattice, hitAngle + keplerianPhase(c, u, hitR))
        turbulence2 == turbulenceNoise(lattice, hitAngle + keplerianPhase(c + L, u, hitR))
    IN  crossfade(turbulence2, turbulence1, blendFactor(Num(c), L).v)

\* the blended turbulence the shader computes at a time
turbulence(lattice, u, hitR, hitAngle, time) ==
    turbulenceAt(lattice, u, hitR, hitAngle, cyclicTime(time, cycleLength(u)).v)

\* uniforms.turbulenceStretch.max(0.1), the divisor of the arc coordinates
stretchDivisor(u) == Max2(u.turbulenceStretch, 100)

\* clamp(rayDir.y, -1, 1), the argument of asin in the star field
starPhiArgument(dir) == clamp(dir[2], -DScale, DScale)

(* ------------------------------------------------------------------ *)
(* Background field                                                    *)
(* ------------------------------------------------------------------ *)
\* bgColor = starBackgroundColor (+ starField(rayDir)) (+ nebulaField(rayDir)),
\* stars and nebula being the samples of the two fields at direction dir
BackgroundField(u, dir, stars, nebula) ==
    LET starsOn == u.starsEnabled > Half
        nebulaOn == u.nebulaEnabled > Half
    IN  [dir |-> dir, starsOn |-> starsOn, nebulaOn |-> nebulaOn,
         bgColor |-> u.starBackgroundColor
                       + (IF starsOn THEN stars ELSE 0)
                       + (IF nebulaOn THEN nebula ELSE 0)]

\* pow(color, 1/2.2): 1/2.2 = 1/4 + 1/8 + 1/16 + 1/64 + 1/1024 + ..., each
\* factor a repeated square root
gamma(x) ==
    LET r2 == sqrtFix(x)
        r4 == sqrtFix(r2)
        r8 == sqrtFix(r4)
        r16 == sqrtFix(r8)
        r32 == sqrtFix(r16)
        r64 == sqrtFix(r32)
    IN  Mul(Mul(Mul(r4, r8), r16), r64)

(* ------------------------------------------------------------------ *)
(* Ray state                                                           *)
(* ------------------------------------------------------------------ *)
VARIABLES
    variant,    \* which createBlackHoleShader is evaluated
    uniforms,   \* the parameter set
    camPos,     \* uniforms.cameraPosition
    rayDir0,    \* ray direction through the pixel, before any bending
    rayPos, prevPos, rayDir,
    color, alpha, escaped, captured,
    i,          \* iterations of Loop(64) started so far
    hit,        \* the disk hit of the latest iteration
    background, \* the background blended into color after the loop
    pixel,      \* the returned vec4
    pc,
    config,     \* the live configuration object of main.js
    storage,    \* the localStorage item 'blackhole-simulation-config'
    lastOp,     \* the handler that ran last
    fn,         \* the latest evaluation of a shader function on its own
    page,       \* the start of main.js: renderer, post-processing, scene, frames
    anim        \* a CameraAnimation with its camera and its orbit controls

\* the variables outside the evaluation of one pixel
appVars == <<config, storage, lastOp, fn, page, anim>>

\* the variables of the evaluation of one pixel, besides uniforms and pc
rayVars == <<variant, camPos, rayDir0, rayPos, prevPos, rayDir,
             color, alpha, escaped, captured, i, hit, background, pixel>>

vars == <<variant, uniforms, camPos, rayDir0, rayPos, prevPos, rayDir,
          color, alpha, escaped, captured, i, hit, background, pixel, pc,
          config, storage, lastOp, fn, page, anim>>

NoHit == [crossed |-> FALSE, t |-> 0, hitR |-> 0, inDisk |-> FALSE,
          rgb |-> 0, w |-> 0, alphaBefore |-> 0]
NoBackground == [added |-> FALSE, field |-> [bgColor |-> 0], weight |-> 0]
NoPixel == [returned |-> FALSE]
NoStorage == [saved |-> FALSE]
NoOp == [op |-> "none"]
NoFn == [op |-> "none"]
NoPage == [op |-> "none"]
NoAnim == [op |-> "none"]

\* the application state while one pixel is evaluated
AppIdle ==
    /\ config = fullDefaultConfig
    /\ storage = NoStorage
    /\ lastOp = NoOp
    /\ fn = NoFn
    /\ page = NoPage
    /\ anim = NoAnim

\* the ray state outside the loop
RayIdle ==
    /\ camPos = DefaultCameraPosition
    /\ rayDir0 = rayDir
    /\ prevPos = rayPos
    /\ color = 0
    /\ alpha = 0
    /\ escaped = 0
    /\ captured = 0
    /\ i = 0
    /\ hit = NoHit
    /\ background = NoBackground
    /\ pixel = NoPixel

Init ==
    /\ AppIdle
    /\ variant \in Variants
    /\ uniforms \in ParameterSets
    /\ \E pose \in CameraPoses, sx \in ScreenCoords, sy \in ScreenCoords :
          /\ camPos = pose.pos
          /\ rayDir0 = InitialRayDir(pose, <<sx, sy>>)
    /\ rayPos = camPos
    /\ prevPos = camPos
    /\ rayDir = rayDir0
    /\ color = 0
    /\ alpha = 0
    /\ escaped = 0
    /\ captured = 0
    /\ i = 0
    /\ hit = NoHit
    /\ background = NoBackground
    /\ pixel = NoPixel
    /\ pc = "loop"

(* ------------------------------------------------------------------ *)
(* The loop body                                                       *)
(* ------------------------------------------------------------------ *)
rs == 2 * uniforms.blackHoleMass
r == length(rayPos)

\* deviation: the opacity test is missing from the break condition
Terminated_noOpacity == escaped > Half \/ captured > Half

\* the check at the top of the loop body
Terminated == escaped > Half \/ captured > Half \/ alpha > OpaqueAlpha
\* deviation: capture at the horizon itself, without the 1.01 margin
IsCaptured_noMargin == r < rs

IsCaptured == r < Mul(rs, CaptureFactor)
\* deviation: the scene boundary taken twice as far out
IsEscaped_far == r > 2 * EscapeRadius

IsEscaped == r > EscapeRadius

\* deviation: the ramp ends at r = 5 * rs instead of 5 * rs past the horizon
horizonFactor_fiveRs == Mul(smoothstep(0, 4 * rs, r - rs), 800) + 200

\* smoothstep(0, rs*5, r - rs) * 0.8 + 0.2
horizonFactor == Mul(smoothstep(0, 5 * rs, r - rs), 800) + 200

adaptiveStep ==
    IF variant = "adaptive" THEN Mul(uniforms.stepSize, horizonFactor)
    ELSE uniforms.stepSize

\* -rayPos / r, in units of 1/DScale
toCenter == VScale(<<-rayPos[1], -rayPos[2], -rayPos[3]>>, DScale, r)

\* rs / (r*r) * step * gravitationalLensing, in units of 1/(10*DScale)
bendStrength ==
    Only({Mul(Mul(RDiv(RDiv(rs * 10 * DScale, d) * Scale, d), adaptiveStep),
              uniforms.gravitationalLensing) : d \in {r}})

bentDir == normalize(VAdd(rayDir, VScale(toCenter, bendStrength, 10 * DScale)))
steppedPos(dir) == VAdd(rayPos, VScale(dir, adaptiveStep, DScale))

\* prevPos.y * rayPos.y < 0
crossedPlane(prev, cur) == (prev[2] < 0 /\ cur[2] > 0) \/ (prev[2] > 0 /\ cur[2] < 0)

hitParam(prev, cur) == Div(-prev[2], cur[2] - prev[2])
hitPos(prev, cur) ==
    Only({<<mix(prev[1], cur[1], t), mix(prev[2], cur[2], t), mix(prev[3], cur[3], t)>>
            : t \in {hitParam(prev, cur)}})
hitRadius(prev, cur) ==
    Only({length(<<h[1], 0, h[3]>>) : h \in {hitPos(prev, cur)}})

\* deviation: the inner edge itself counts as inside the disk
inDisk_closedInner(hitR) ==
    hitR >= uniforms.diskInnerRadius /\ hitR < uniforms.diskOuterRadius

inDisk(hitR) == hitR > uniforms.diskInnerRadius /\ hitR < uniforms.diskOuterRadius

\* front-to-back compositing of one accepted hit
remainingAlpha(a) == One - a
\* deviation: opacity accumulated without the remaining-transparency weight
compositeAlpha_additive(a, d) == a + d.w

compositeAlpha(a, d) == a + Mul(remainingAlpha(a), d.w)

\* deviation: the colour weighted by the opacity after its own update
compositeColor_postAlpha(c, a, d) ==
    c + Mul(Mul(d.rgb, d.w), remainingAlpha(compositeAlpha(a, d)))

compositeColor(c, a, d) == c + Mul(Mul(d.rgb, d.w), remainingAlpha(a))

\* deviation: a loop that only exits through its Break statements
InLoop_unbounded == pc = "loop"

InLoop == pc = "loop" /\ i < MaxIterations

\* If(escaped || captured || alpha > 0.99) Break
LoopBreak ==
    /\ InLoop
    /\ Terminated
    /\ i' = i + 1
    /\ pc' = "post"
    /\ UNCHANGED <<appVars, variant, uniforms, camPos, rayDir0, rayPos, prevPos, rayDir,
                   color, alpha, escaped, captured, hit, background, pixel>>

\* If(r < rs * 1.01) { captured = 1; Break }
Capture ==
    /\ InLoop
    /\ ~Terminated
    /\ IsCaptured
    /\ captured' = One
    /\ i' = i + 1
    /\ pc' = "post"
    /\ UNCHANGED <<appVars, variant, uniforms, camPos, rayDir0, rayPos, prevPos, rayDir,
                   color, alpha, escaped, hit, background, pixel>>

\* If(r > 100) { escaped = 1; Break }
Escape ==
    /\ InLoop
    /\ ~Terminated
    /\ ~IsCaptured
    /\ IsEscaped
    /\ escaped' = One
    /\ i' = i + 1
    /\ pc' = "post"
    /\ UNCHANGED <<appVars, variant, uniforms, camPos, rayDir0, rayPos, prevPos, rayDir,
                   color, alpha, captured, hit, background, pixel>>

\* the rest of the loop body: bend, step, disk-plane test, compositing
March ==
    /\ InLoop
    /\ ~Terminated
    /\ ~IsCaptured
    /\ ~IsEscaped
    /\ rayDir' = bentDir
    /\ prevPos' = rayPos
    /\ rayPos' = steppedPos(rayDir')
    /\ IF crossedPlane(rayPos, rayPos') /\ alpha < OpaqueAlpha
       THEN LET hitR == hitRadius(rayPos, rayPos')
                t == hitParam(rayPos, rayPos')
            IN  IF inDisk(hitR)
                THEN \E rgb \in DiskColorValues, ringOpacity \in RingOpacityValues :
                        LET diskResult == accretionDiskColor(uniforms, hitR, rgb, ringOpacity)
                        IN  /\ color' = compositeColor(color, alpha, diskResult)
                            /\ alpha' = compositeAlpha(alpha, diskResult)
                            /\ hit' = [crossed |-> TRUE, t |-> t, hitR |-> hitR,
                                       inDisk |-> TRUE, rgb |-> diskResult.rgb,
                                       w |-> diskResult.w, alphaBefore |-> alpha]
                ELSE /\ hit' = [crossed |-> TRUE, t |-> t, hitR |-> hitR,
                                inDisk |-> FALSE, rgb |-> 0, w |-> 0,
                                alphaBefore |-> alpha]
                     /\ UNCHANGED <<color, alpha>>
       ELSE /\ hit' = NoHit
            /\ UNCHANGED <<color, alpha>>
    /\ i' = i + 1
    /\ UNCHANGED <<appVars, variant, uniforms, camPos, rayDir0, escaped, captured,
                   background, pixel, pc>>

\* Loop(64) ran all its iterations
LoopExhausted ==
    /\ pc = "loop"
    /\ i >= MaxIterations
    /\ pc' = "post"
    /\ UNCHANGED <<appVars, variant, uniforms, camPos, rayDir0, rayPos, prevPos, rayDir,
                   color, alpha, escaped, captured, i, hit, background, pixel>>

(* ------------------------------------------------------------------ *)
(* After the loop                                                      *)
(* ------------------------------------------------------------------ *)
\* deviation: every ray is marked escaped after the loop
forcedEscaped_always(cap, esc) == One

\* If(captured < 0.5) escaped = 1
forcedEscaped(cap, esc) == IF cap < Half THEN One ELSE esc

PostLoop ==
    /\ pc = "post"
    /\ escaped' = forcedEscaped(captured, escaped)
    /\ pc' = "background"
    /\ UNCHANGED <<appVars, variant, uniforms, camPos, rayDir0, rayPos, prevPos, rayDir,
                   color, alpha, captured, i, hit, background, pixel>>

\* If(escaped > 0.5 && alpha < 0.99) color += bgColor * (1 - alpha)
backgroundVisible(esc, a) == esc > Half /\ a < OpaqueAlpha
\* deviation: the background sampled along the unbent camera ray
backgroundDir_initial == rayDir0

backgroundDir == rayDir

Background ==
    /\ pc = "background"
    /\ IF backgroundVisible(escaped, alpha)
       THEN \E stars \in StarFieldValues, nebula \in NebulaFieldValues :
               LET field == BackgroundField(uniforms, backgroundDir, stars, nebula)
               IN  /\ background' = [added |-> TRUE, field |-> field,
                                     weight |-> One - alpha]
                   /\ color' = color + Mul(field.bgColor, One - alpha)
       ELSE /\ background' = NoBackground
            /\ color' = color
    /\ pc' = "gamma"
    /\ UNCHANGED <<appVars, variant, uniforms, camPos, rayDir0, rayPos, prevPos, rayDir,
                   alpha, escaped, captured, i, hit, pixel>>

\* finalColor = pow(color, 1/2.2); return vec4(finalColor, 1.0)
GammaReturn ==
    /\ pc = "gamma"
    /\ pixel' = [returned |-> TRUE, rgb |-> gamma(color), a |-> One]
    /\ pc' = "done"
    /\ UNCHANGED <<appVars, variant, uniforms, camPos, rayDir0, rayPos, prevPos, rayDir,
                   color, alpha, escaped, captured, i, hit, background>>

Next ==
    \/ LoopBreak
    \/ Capture
    \/ Escape
    \/ March
    \/ LoopExhausted
    \/ PostLoop
    \/ Background
    \/ GammaReturn

Spec == Init /\ [][Next]_vars

\* the shader runs to completion: every enabled step is eventually taken
FairSpec == Spec /\ WF_vars(Next)

TypeOK ==
    /\ variant \in Variants
    /\ i \in 0..MaxIterations
    /\ pc \in {"loop", "post", "background", "gamma", "done"}
    /\ escaped \in {0, One}
    /\ captured \in {0, One}

(* ------------------------------------------------------------------ *)
(* The application: configuration, uniforms, storage, frames           *)
(* ------------------------------------------------------------------ *)
\* the keys updateUniforms copies from a configuration object
UpdatableKeys ==
    {"blackHoleMass", "diskInnerRadius", "diskOuterRadius", "diskTemperature",
     "temperatureFalloff", "diskRotationSpeed", "turbulenceStretch",
     "turbulenceCycleTime", "diskEdgeSoftnessInner", "diskEdgeSoftnessOuter",
     "gravitationalLensing", "stepSize", "starsEnabled", "starBackgroundColor",
     "nebulaEnabled"}

\* new THREE.Color(hex), one channel
colorOf(value) == IF value = [hex |-> "#000000"] THEN 0 ELSE One

\* the value a uniform takes from a configuration value
uniformValue(key, value) ==
    IF key \in {"starsEnabled", "nebulaEnabled"}
    THEN (IF value # 0 THEN One ELSE 0)
    ELSE IF key = "starBackgroundColor" THEN colorOf(value)
    ELSE value

\* the values initializeUniforms falls back to for a missing key
uniformFallbacks ==
    [fullDefaultConfig EXCEPT !.diskTemperature = 10 * Scale,
                              !.starsEnabled = 0]

\* the size of the window
WindowSizes == {<<1920, 1080>>, <<1280, 720>>}

\* initializeUniforms(config): one uniform per key of UpdatableKeys, then
\* time, resolution and the camera
initializeUniforms(cfg, window) ==
    [k \in UpdatableKeys |->
        uniformValue(k, IF k \in DOMAIN cfg THEN cfg[k] ELSE uniformFallbacks[k])]
      @@ [time |-> 0,
          resolution |-> window,
          cameraPosition |-> DefaultCameraPosition,
          cameraTarget |-> DefaultCameraTarget]

\* updateUniforms(config): every key of UpdatableKeys that config defines is
\* copied to its uniform; any other key of config is ignored
updateUniforms(u, cfg) ==
    [k \in DOMAIN u |->
        IF k \in UpdatableKeys /\ k \in DOMAIN cfg
        THEN uniformValue(k, cfg[k])
        ELSE u[k]]

\* the colour keys that are followed; nebula1Color and nebula2Color are
\* treated by the same loop
COLOR_PROPERTIES == {"starBackgroundColor"}

\* a colour channel of a Tweakpane colour object is a number of tenths
ChannelScale == 10
\* Math.round of a channel that is not negative
roundChannel(c) == (c + ChannelScale \div 2) \div ChannelScale

HexDigits == <<"0", "1", "2", "3", "4", "5", "6", "7",
               "8", "9", "a", "b", "c", "d", "e", "f">>
\* deviation: n.toString(16) without the padding
hex2_unpadded(n) ==
    IF n < 16 THEN HexDigits[n + 1]
    ELSE HexDigits[(n \div 16) + 1] \o HexDigits[(n % 16) + 1]

\* n.toString(16).padStart(2, '0') for 0 <= n <= 255
hex2(n) == HexDigits[(n \div 16) + 1] \o HexDigits[(n % 16) + 1]

channel(value, name) == IF name \in DOMAIN value THEN value[name] ELSE 0

\* normalizeColorToHex(value): a string is returned as it is, a colour
\* object is formatted, anything else (null) becomes black
normalizeColorToHex(value) ==
    IF "hex" \in DOMAIN value THEN value
    ELSE IF DOMAIN value \subseteq {"r", "g", "b"}
    THEN [hex |-> "#" \o hex2(roundChannel(channel(value, "r")))
                      \o hex2(roundChannel(channel(value, "g")))
                      \o hex2(roundChannel(channel(value, "b")))]
    ELSE [hex |-> "#000000"]

\* the loop over COLOR_PROPERTIES of loadConfig and saveConfig
normalizeColors(obj) ==
    [k \in DOMAIN obj |->
        IF k \in COLOR_PROPERTIES THEN normalizeColorToHex(obj[k]) ELSE obj[k]]

\* { ...a, ...b }
spread(a, b) ==
    [k \in DOMAIN a \cup DOMAIN b |-> IF k \in DOMAIN b THEN b[k] ELSE a[k]]

\* the try block of loadConfig: getItem, JSON.parse, the colour loop and the
\* merge.  An item is absent (saved = FALSE), the text of an object
\* (parsed), or a text of the given kind: "blocked" when getItem throws,
\* "empty" for the empty text, "invalid" when JSON.parse throws, "null"
\* for the text null, whose property access throws
tryLoadConfig(defaults, item) ==
    IF ~item.saved THEN [returned |-> FALSE, threw |-> FALSE]
    ELSE IF "parsed" \in DOMAIN item
    THEN [returned |-> TRUE, threw |-> FALSE,
          value |-> spread(defaults, normalizeColors(item.parsed))]
    ELSE IF item.kind = "empty" THEN [returned |-> FALSE, threw |-> FALSE]
    ELSE [returned |-> FALSE, threw |-> TRUE]

\* deviation: the defaults are filled in place and handed back
loadConfigCall_inPlace(defaults, item) ==
    LET try == tryLoadConfig(defaults, item)
        value == IF try.returned THEN try.value ELSE defaults
    IN  [value |-> value, fresh |-> FALSE, defaultsAfter |-> value, escaped |-> FALSE]

\* loadConfig(defaults) as a call: the object returned is built by a spread
\* in either return, so it is a new object and defaults is only read; an
\* exception of the try block is caught
loadConfigCall(defaults, item) ==
    LET try == tryLoadConfig(defaults, item)
    IN  [value |-> IF try.returned THEN try.value ELSE spread(defaults, <<>>),
         fresh |-> TRUE, defaultsAfter |-> defaults, escaped |-> FALSE]

\* loadConfig(defaults): the configuration returned
loadConfig(defaults, item) == loadConfigCall(defaults, item).value

\* JSON.stringify followed by JSON.parse of a configuration of finite
\* numbers, flags and colours: the same keys and values
\* saveConfig(config): a copy with its colours normalised is stored
saveConfig(cfg) == [saved |-> TRUE, parsed |-> normalizeColors(spread(<<>>, cfg))]

\* slider ranges of the UI bindings
\* deviation: an inner-radius slider that reaches past the outer minimum
InnerRadiusRange_wide == [min |-> 2000, max |-> 7000]

InnerRadiusRange == [min |-> 2000, max |-> 5000]
OuterRadiusRange == [min |-> 6000, max |-> 20000]
LacunarityRange == [min |-> 1000, max |-> 4000]

\* the bindings of the UI that are followed here, and the values a binding
\* writes: for the two radii the end of the slider nearest to the other
\* radius, for the lacunarity the upper end, for a checkbox either state
UIKeys == {"diskInnerRadius", "diskOuterRadius", "starsEnabled", "turbulenceLacunarity"}
UIValues(key) ==
    CASE key = "diskInnerRadius" -> {InnerRadiusRange.max}
      [] key = "diskOuterRadius" -> {OuterRadiusRange.min}
      [] key = "turbulenceLacunarity" -> {LacunarityRange.max}
      [] OTHER -> {0, One}

\* frames counted before the clock is stopped
MaxFrames == 2
\* Math.min((currentTime - lastFrameTime) / 1000, 0.033)
FrameCap == 33
\* milliseconds between two frames; performance.now() never goes back
ElapsedTimes == {0, FrameCap, 1000}
\* deviation: the frame delta taken without its cap
deltaTime_uncapped(elapsed) == elapsed

deltaTime(elapsed) == Min2(elapsed, FrameCap)

\* page load: config = loadConfig(defaultConfig), new BlackHoleSimulation
AppInit ==
    /\ storage = NoStorage
    /\ config = loadConfig(fullDefaultConfig, storage)
    /\ uniforms = initializeUniforms(config, <<1920, 1080>>)
    /\ lastOp = NoOp
    /\ fn = NoFn
    /\ page = NoPage
    /\ anim = NoAnim
    /\ variant = "adaptive"
    /\ rayPos = DefaultCameraPosition
    /\ rayDir = InitialRayDir([pos |-> DefaultCameraPosition,
                               target |-> DefaultCameraTarget], <<0, 0>>)
    /\ RayIdle
    /\ pc = "app"

\* a binding writes config[key] and its change handler calls
\* onUniformChange(key, value) = updateUniforms({ [key]: value })
OnUniformChange ==
    /\ pc = "app"
    /\ \E key \in UIKeys :
         \E value \in UIValues(key) :
            /\ config' = [config EXCEPT ![key] = value]
            /\ uniforms' = updateUniforms(uniforms, [k \in {key} |-> value])
            /\ lastOp' = [op |-> "change", key |-> key]
    /\ UNCHANGED <<storage, fn, pc, rayVars, page, anim>>

\* the preset of a name, if there is one
\* deviation: an unknown name falls back to the medium preset
presetOf_fallback(name) ==
    [found |-> TRUE,
     preset |-> QUALITY_PRESETS[IF name \in DOMAIN QUALITY_PRESETS
                                THEN name ELSE "medium"]]

presetOf(name) ==
    IF name \in DOMAIN QUALITY_PRESETS
    THEN [found |-> TRUE, preset |-> QUALITY_PRESETS[name]]
    ELSE [found |-> FALSE]

PresetNames == DOMAIN QUALITY_PRESETS \cup {"custom"}

\* applyQualityPreset(presetName)
ApplyQualityPreset ==
    /\ pc = "app"
    /\ \E name \in PresetNames :
          /\ IF presetOf(name).found
             THEN uniforms' = updateUniforms(uniforms, presetOf(name).preset)
             ELSE uniforms' = uniforms
          /\ lastOp' = [op |-> "preset", known |-> name \in DOMAIN QUALITY_PRESETS]
    /\ UNCHANGED <<config, storage, fn, pc, rayVars, page, anim>>

\* deviation: only the keys the target lacks are taken from the source
assign_missingOnly(target, source) == spread(source, target)

\* Object.assign(target, source): the content of target afterwards
assign(target, source) == spread(target, source)

\* onResetToDefaults: Object.assign(config, defaultConfig); updateUniforms(config)
OnResetToDefaults ==
    /\ pc = "app"
    /\ config' = assign(config, fullDefaultConfig)
    /\ uniforms' = updateUniforms(uniforms, config')
    /\ lastOp' = [op |-> "reset"]
    /\ UNCHANGED <<storage, fn, pc, rayVars, page, anim>>

\* onSaveConfig: saveConfig(config)
OnSaveConfig ==
    /\ pc = "app"
    /\ storage' = saveConfig(config)
    /\ lastOp' = [op |-> "save"]
    /\ UNCHANGED <<config, uniforms, fn, pc, rayVars, page, anim>>

\* the page is loaded again: the module of main.js runs from its start
Reload ==
    /\ pc = "app"
    /\ config' = loadConfig(fullDefaultConfig, storage)
    /\ uniforms' = initializeUniforms(config', uniforms.resolution)
    /\ lastOp' = [op |-> "reload"]
    /\ UNCHANGED <<storage, fn, pc, rayVars, page, anim>>

\* onClearConfig: clearConfig(); window.location.reload()
OnClearConfig ==
    /\ pc = "app"
    /\ storage' = NoStorage
    /\ config' = loadConfig(fullDefaultConfig, storage')
    /\ uniforms' = initializeUniforms(config', uniforms.resolution)
    /\ lastOp' = [op |-> "clear"]
    /\ UNCHANGED <<fn, pc, rayVars, page, anim>>

\* onRegenerate: updateUniforms(config); regenerate()
OnRegenerate ==
    /\ pc = "app"
    /\ uniforms' = updateUniforms(uniforms, config)
    /\ lastOp' = [op |-> "regenerate"]
    /\ UNCHANGED <<config, storage, fn, pc, rayVars, page, anim>>

\* the resize listener: onResize(window.innerWidth, window.innerHeight)
OnResize ==
    /\ pc = "app"
    /\ \E window \in WindowSizes :
          uniforms' = [uniforms EXCEPT !.resolution = window]
    /\ lastOp' = [op |-> "resize"]
    /\ UNCHANGED <<config, storage, fn, pc, rayVars, page, anim>>

\* animate: update(deltaTime, camera) adds deltaTime to the time uniform and
\* copies the camera: target = position + 10 * view direction
Animate ==
    /\ pc = "app"
    /\ uniforms.time < MaxFrames * FrameCap
    /\ \E elapsed \in ElapsedTimes :
          uniforms' = [uniforms EXCEPT
                         !.time = @ + deltaTime(elapsed),
                         !.cameraPosition = DefaultCameraPosition,
                         !.cameraTarget =
                            VAdd(DefaultCameraPosition,
                                 VScale(camForward([pos |-> DefaultCameraPosition,
                                                    target |-> DefaultCameraTarget]),
                                        10 * Scale, DScale))]
    /\ lastOp' = [op |-> "frame"]
    /\ UNCHANGED <<config, storage, fn, pc, rayVars, page, anim>>

AppNext ==
    \/ OnUniformChange
    \/ ApplyQualityPreset
    \/ OnResetToDefaults
    \/ OnSaveConfig
    \/ Reload
    \/ OnClearConfig
    \/ OnRegenerate
    \/ OnResize
    \/ Animate

AppSpec == AppInit /\ [][AppNext]_vars

(* ------------------------------------------------------------------ *)
(* The start of the page: renderer, post-processing, scene, frames     *)
(* ------------------------------------------------------------------ *)
\* meshes created before regeneration is no longer followed
MaxMeshes == 3

\* new BlackHoleSimulation(scene, config): no mesh yet; the renderer's
\* init() has not settled; postProcessing and bloomPassNode are null
NewPage ==
    [scene |-> {}, blackHoleMesh |-> 0, created |-> 0,
     disposedMaterials |-> {}, disposedGeometries |-> {},
     init |-> "pending", postProcessing |-> FALSE, bloomPassNode |-> FALSE,
     uiBloomNode |-> FALSE, bloomStrength |-> 0,
     requested |-> FALSE, frames |-> 0, framesWithoutBloom |-> 0,
     lastRender |-> "none", fallback |-> FALSE]

\* deviation: the new mesh is added without the clean-up of the old one
createBlackHole_noCleanup(p) ==
    [p EXCEPT !.created = @ + 1,
              !.blackHoleMesh = p.created + 1,
              !.scene = @ \cup {p.created + 1}]

\* createBlackHole(): the existing mesh is removed from the scene and its
\* material and geometry are disposed; a new mesh is made and added
createBlackHole(p) ==
    LET cleaned == IF p.blackHoleMesh # 0
                   THEN [p EXCEPT !.scene = @ \ {p.blackHoleMesh},
                                  !.disposedMaterials = @ \cup {p.blackHoleMesh},
                                  !.disposedGeometries = @ \cup {p.blackHoleMesh}]
                   ELSE p
    IN  [cleaned EXCEPT !.created = @ + 1,
                        !.blackHoleMesh = p.created + 1,
                        !.scene = @ \cup {p.created + 1}]

\* regenerate()
regenerate(p) == createBlackHole(p)

\* one statement of the callback of renderer.init().then, or of animate,
\* run on the page and the time uniform
exec(st, stmt, dt) ==
    CASE stmt = "postProcessing" ->
            [st EXCEPT !.page.postProcessing = TRUE]
      [] stmt = "setupBloom" ->
            IF ~st.page.postProcessing THEN st
            ELSE [st EXCEPT !.page.bloomPassNode = TRUE,
                            !.page.bloomStrength = 800]
      [] stmt = "setBloomNode" ->
            [st EXCEPT !.page.uiBloomNode = st.page.bloomPassNode]
      [] stmt = "animate" ->
            [st EXCEPT !.page.requested = TRUE,
                       !.page.frames = @ + 1,
                       !.page.framesWithoutBloom =
                           IF st.page.init = "resolved" /\ st.page.bloomPassNode
                           THEN @ ELSE @ + 1,
                       !.page.lastRender =
                           IF st.page.postProcessing THEN "postProcessing"
                           ELSE "renderer",
                       !.time = @ + dt]

RECURSIVE execAll(_, _, _)
execAll(st, stmts, dt) ==
    IF stmts = <<>> THEN st
    ELSE execAll(exec(st, Head(stmts), dt), Tail(stmts), dt)

\* deviation: the loop is started before post-processing is set up
thenCallback_animateFirst == <<"animate", "postProcessing", "setupBloom", "setBloomNode">>

\* renderer.init().then(() => { ... })
thenCallback == <<"postProcessing", "setupBloom", "setBloomNode", "animate">>

\* the module of main.js has run: the simulation is constructed from the
\* loaded configuration, createBlackHole() has been called once, and
\* renderer.init() is pending
PageInit ==
    /\ storage = NoStorage
    /\ config = loadConfig(fullDefaultConfig, storage)
    /\ uniforms = initializeUniforms(config, <<1920, 1080>>)
    /\ page = createBlackHole(NewPage)
    /\ lastOp = NoOp
    /\ fn = NoFn
    /\ anim = NoAnim
    /\ variant = "adaptive"
    /\ rayPos = DefaultCameraPosition
    /\ rayDir = InitialRayDir([pos |-> DefaultCameraPosition,
                               target |-> DefaultCameraTarget], <<0, 0>>)
    /\ RayIdle
    /\ pc = "page"

\* renderer.init() resolves: the callback of then runs to its end, the
\* first call of animate included
InitResolved ==
    /\ pc = "page"
    /\ page.init = "pending"
    /\ \E elapsed \in ElapsedTimes :
          LET st == execAll([page |-> [page EXCEPT !.init = "resolved"],
                             time |-> uniforms.time],
                            thenCallback, deltaTime(elapsed))
          IN  /\ page' = st.page
              /\ uniforms' = [uniforms EXCEPT !.time = st.time]
    /\ lastOp' = [op |-> "initResolved"]
    /\ UNCHANGED <<config, storage, fn, pc, rayVars, anim>>

\* renderer.init() rejects: the callback of then is skipped and the one of
\* catch replaces the document with the fallback message
InitRejected ==
    /\ pc = "page"
    /\ page.init = "pending"
    /\ page' = [page EXCEPT !.init = "rejected", !.fallback = TRUE]
    /\ lastOp' = [op |-> "initRejected"]
    /\ UNCHANGED <<config, storage, uniforms, fn, pc, rayVars, anim>>

\* a requested animation frame: animate() requests the next one, updates
\* the simulation and renders
Frame ==
    /\ pc = "page"
    /\ page.requested
    /\ page.frames < MaxFrames
    /\ \E elapsed \in ElapsedTimes :
          LET st == exec([page |-> page, time |-> uniforms.time],
                         "animate", deltaTime(elapsed))
          IN  /\ page' = st.page
              /\ uniforms' = [uniforms EXCEPT !.time = st.time]
    /\ lastOp' = [op |-> "frame"]
    /\ UNCHANGED <<config, storage, fn, pc, rayVars, anim>>

\* onRegenerate: updateUniforms(config); regenerate().  The controls are
\* gone once the fallback message has replaced the document
Regenerate ==
    /\ pc = "page"
    /\ ~page.fallback
    /\ page.created < MaxMeshes
    /\ uniforms' = updateUniforms(uniforms, config)
    /\ page' = regenerate(page)
    /\ lastOp' = [op |-> "regenerate"]
    /\ UNCHANGED <<config, storage, fn, pc, rayVars, anim>>

\* onBloomChange('strength', value): only once the bloom node exists
BloomStrengths == {0, 800, 3000}
OnBloomChange ==
    /\ pc = "page"
    /\ ~page.fallback
    /\ \E value \in BloomStrengths :
          page' = IF page.bloomPassNode
                  THEN [page EXCEPT !.bloomStrength = value]
                  ELSE page
    /\ lastOp' = [op |-> "bloom"]
    /\ UNCHANGED <<config, storage, uniforms, fn, pc, rayVars, anim>>

\* the resize listener, which is installed before init() settles
PageResize ==
    /\ pc = "page"
    /\ \E window \in WindowSizes :
          uniforms' = [uniforms EXCEPT !.resolution = window]
    /\ lastOp' = [op |-> "resize"]
    /\ UNCHANGED <<config, storage, fn, pc, rayVars, page, anim>>

PageNext ==
    \/ InitResolved
    \/ InitRejected
    \/ Frame
    \/ Regenerate
    \/ OnBloomChange
    \/ PageResize

PageSpec == PageInit /\ [][PageNext]_vars

(* ------------------------------------------------------------------ *)
(* The cinematic camera animation                                      *)
(* ------------------------------------------------------------------ *)
\* positions are in 1/Scale units, times in milliseconds
cinematicKeyframes ==
    << [position |-> <<0, -3000, 20000>>,     target |-> <<0, 0, 0>>, duration |-> 5000],
       [position |-> <<15000, -5000, 12000>>, target |-> <<0, 0, 0>>, duration |-> 4000],
       [position |-> <<10000, -18000, -10000>>, target |-> <<0, 0, 0>>, duration |-> 4000],
       [position |-> <<-5000, -6000, -24000>>, target |-> <<0, 0, 0>>, duration |-> 3000],
       [position |-> <<-5000, -1000, -20000>>, target |-> <<0, 0, 0>>, duration |-> 12000],
       [position |-> <<5000, -1000, 0>>,      target |-> <<0, 0, 0>>, duration |-> 0] >>

RECURSIVE sumDurations(_)
sumDurations(n) ==
    IF n = 0 THEN 0 ELSE sumDurations(n - 1) + cinematicKeyframes[n].duration

\* calculateTotalDuration()
totalDuration == sumDurations(Len(cinematicKeyframes))

\* getKeyframe(index): keyframes[((index % len) + len) % len]; indices
\* count from 0 as in the source
getKeyframe(index) ==
    cinematicKeyframes[(index % Len(cinematicKeyframes)) + 1]

\* getKeyframeInfo(globalTime): the first keyframe whose span holds the
\* time, or the last keyframe with localTime = duration
RECURSIVE keyframeInfoFrom(_, _, _)
keyframeInfoFrom(idx, accumulatedTime, globalTime) ==
    IF idx >= Len(cinematicKeyframes)
    THEN [index |-> Len(cinematicKeyframes) - 1,
          localTime |-> getKeyframe(Len(cinematicKeyframes) - 1).duration,
          duration |-> getKeyframe(Len(cinematicKeyframes) - 1).duration]
    ELSE IF globalTime < accumulatedTime + getKeyframe(idx).duration
    THEN [index |-> idx,
          localTime |-> globalTime - accumulatedTime,
          duration |-> getKeyframe(idx).duration]
    ELSE keyframeInfoFrom(idx + 1, accumulatedTime + getKeyframe(idx).duration,
                          globalTime)

getKeyframeInfo(globalTime) == keyframeInfoFrom(0, 0, globalTime)

\* catmullRom(p0, p1, p2, p3, t) for t in 1/Scale
catmullRom(p0, p1, p2, p3, t) ==
    LET t2 == Mul(t, t)
        t3 == Mul(t2, t)
    IN  (2 * p1
         + Mul(p2 - p0, t)
         + Mul(2 * p0 - 5 * p1 + 4 * p2 - p3, t2)
         + Mul(3 * p1 - p0 - 3 * p2 + p3, t3)) \div 2

\* interpolateSpline(index, t): tempPosition and tempTarget
interpolateSpline(index, t) ==
    LET p0 == getKeyframe(index - 1)
        p1 == getKeyframe(index)
        p2 == getKeyframe(index + 1)
        p3 == getKeyframe(index + 2)
    IN  [tempPosition |->
            [c \in 1..3 |-> catmullRom(p0.position[c], p1.position[c],
                                       p2.position[c], p3.position[c], t)],
         tempTarget |->
            [c \in 1..3 |-> catmullRom(p0.target[c], p1.target[c],
                                       p2.target[c], p3.target[c], t)]]

\* new CameraAnimation(camera, controls) with the camera and the controls
\* of main.js; sinceStart counts the updates of the running play
NewAnimation ==
    [isPlaying |-> FALSE, currentTime |-> 0,
     tempPosition |-> <<0, 0, 0>>, tempTarget |-> <<0, 0, 0>>,
     originalPosition |-> <<0, 0, 0>>, originalTarget |-> <<0, 0, 0>>,
     cameraPosition |-> DefaultCameraPosition, lookAt |-> DefaultCameraTarget,
     controlsTarget |-> DefaultCameraTarget, controlsEnabled |-> TRUE,
     updates |-> 0, sinceStart |-> 0]

\* deviation: start() resets the time of a running animation
start_restart(a) ==
    [a EXCEPT !.originalPosition = a.cameraPosition,
              !.originalTarget = a.controlsTarget,
              !.controlsEnabled = FALSE,
              !.isPlaying = TRUE,
              !.currentTime = 0,
              !.sinceStart = 0]

\* start()
start(a) ==
    IF a.isPlaying THEN a
    ELSE [a EXCEPT !.originalPosition = a.cameraPosition,
                   !.originalTarget = a.controlsTarget,
                   !.controlsEnabled = FALSE,
                   !.isPlaying = TRUE,
                   !.currentTime = 0,
                   !.sinceStart = 0]

\* stop()
stop(a) ==
    IF ~a.isPlaying THEN a
    ELSE [a EXCEPT !.isPlaying = FALSE,
                   !.controlsEnabled = TRUE,
                   !.controlsTarget = a.tempTarget]

\* toggle(): the animation afterwards and the value returned
toggle(a) ==
    LET b == IF a.isPlaying THEN stop(a) ELSE start(a)
    IN  [anim |-> b, returned |-> b.isPlaying]

\* deviation: the time is not wrapped at the total duration
wrapTime_none(time) == time

\* if (currentTime >= totalDuration) currentTime = currentTime % totalDuration
wrapTime(time) == IF time >= totalDuration THEN time % totalDuration ELSE time

\* t = info.localTime / info.duration; 0 / 0 is not a number
segmentParameter(info) ==
    IF info.duration = 0 THEN NaN
    ELSE Num((info.localTime * Scale) \div info.duration)

\* update(deltaTime): the animation afterwards; a parameter that is not a
\* number makes every interpolated coordinate not a number
update(a, dt) ==
    IF ~a.isPlaying THEN a
    ELSE LET time == wrapTime(a.currentTime + dt)
             info == getKeyframeInfo(time)
             t == segmentParameter(info)
             temp == IF t.finite THEN interpolateSpline(info.index, t.v)
                     ELSE [tempPosition |-> NaN, tempTarget |-> NaN]
         IN  [a EXCEPT !.currentTime = time,
                       !.tempPosition = temp.tempPosition,
                       !.tempTarget = temp.tempTarget,
                       !.cameraPosition = temp.tempPosition,
                       !.controlsTarget = temp.tempTarget,
                       !.lookAt = temp.tempTarget,
                       !.updates = @ + 1,
                       !.sinceStart = @ + 1]

\* update calls followed
MaxUpdates == 4
\* frame deltas in milliseconds: none, one capped frame, and two long
\* ones that bring the time to the last frame before the loop point
DeltaTimes == {0, FrameCap, 13000, 14967}
\* where the user can leave the orbit target and the camera by panning
PanTargets == {DefaultCameraTarget, <<1000, 0, 0>>}
PanPositions == {DefaultCameraPosition, <<1000, 5000, 20000>>}

AnimInit ==
    /\ config = fullDefaultConfig
    /\ storage = NoStorage
    /\ lastOp = NoOp
    /\ fn = NoFn
    /\ page = NoPage
    /\ anim = NewAnimation
    /\ uniforms = defaultConfig
    /\ variant = "adaptive"
    /\ rayPos = DefaultCameraPosition
    /\ rayDir = InitialRayDir([pos |-> DefaultCameraPosition,
                               target |-> DefaultCameraTarget], <<0, 0>>)
    /\ RayIdle
    /\ pc = "anim"

AnimStart ==
    /\ pc = "anim"
    /\ anim' = start(anim)
    /\ lastOp' = [op |-> "start"]
    /\ UNCHANGED <<config, storage, uniforms, fn, pc, rayVars, page>>

AnimStop ==
    /\ pc = "anim"
    /\ anim' = stop(anim)
    /\ lastOp' = [op |-> "stop"]
    /\ UNCHANGED <<config, storage, uniforms, fn, pc, rayVars, page>>

AnimToggle ==
    /\ pc = "anim"
    /\ anim' = toggle(anim).anim
    /\ lastOp' = [op |-> "toggle", returned |-> toggle(anim).returned]
    /\ UNCHANGED <<config, storage, uniforms, fn, pc, rayVars, page>>

AnimUpdate ==
    /\ pc = "anim"
    /\ anim.updates < MaxUpdates
    /\ \E dt \in DeltaTimes :
          /\ anim' = update(anim, dt)
          /\ lastOp' = [op |-> "update", dt |-> dt,
                        info |-> getKeyframeInfo(anim'.currentTime),
                        t |-> segmentParameter(getKeyframeInfo(anim'.currentTime))]
    /\ UNCHANGED <<config, storage, uniforms, fn, pc, rayVars, page>>

\* the user pans with the orbit controls, which only act while enabled
UserPan ==
    /\ pc = "anim"
    /\ anim.controlsEnabled
    /\ \E target \in PanTargets, position \in PanPositions :
          anim' = [anim EXCEPT !.controlsTarget = target,
                               !.lookAt = target,
                               !.cameraPosition = position]
    /\ lastOp' = [op |-> "pan"]
    /\ UNCHANGED <<config, storage, uniforms, fn, pc, rayVars, page>>

AnimNext ==
    \/ AnimStart
    \/ AnimStop
    \/ AnimToggle
    \/ AnimUpdate
    \/ UserPan

AnimSpec == AnimInit /\ [][AnimNext]_vars

(* ------------------------------------------------------------------ *)
(* Shader functions evaluated on their own                             *)
(* ------------------------------------------------------------------ *)
\* radii of the ray position, in percent of the horizon radius
RadialPercents == {100, 101, 200, 300, 500, 600, 1000}
\* ray directions: towards the centre, tangential, oblique
FragmentDirs == {<<-DScale, 0, 0>>, <<0, 0, DScale>>, <<-6000, 0, 8000>>}

\* either a ray state at the adaptive-step lines of the loop body, or the
\* start of an evaluation of a function that reads no ray state
FnInit ==
    /\ AppIdle
    /\ \/ /\ pc = "fn"
          /\ variant \in Variants
          /\ uniforms \in ParameterSets
          /\ \E k \in RadialPercents, d \in FragmentDirs :
                /\ rayPos = <<(k * 2 * uniforms.blackHoleMass) \div 100, 0, 0>>
                /\ rayDir = d
       \/ /\ pc = "eval"
          /\ variant = "adaptive"
          /\ uniforms = defaultConfig
          /\ rayPos = DefaultCameraPosition
          /\ rayDir = InitialRayDir([pos |-> DefaultCameraPosition,
                                     target |-> DefaultCameraTarget], <<0, 0>>)
    /\ RayIdle

\* adaptive step, bend, renormalise, save the position, advance
BendAndStep ==
    /\ pc = "fn"
    /\ rayDir' = bentDir
    /\ prevPos' = rayPos
    /\ rayPos' = steppedPos(rayDir')
    /\ fn' = [op |-> "bendAndStep", rs |-> rs, r |-> r,
              factor |-> horizonFactor, step |-> adaptiveStep,
              bend |-> bendStrength]
    /\ pc' = "fnDone"
    /\ UNCHANGED <<config, storage, lastOp, page, anim, variant, uniforms, camPos,
                   rayDir0, color, alpha, escaped, captured, i, hit, background, pixel>>

\* turbulence parameters: the UI range of the cycle time is 5..30 s and of
\* the stretch 0.1..10; updateUniforms and loadConfig accept any number
CycleTimes == {0, 5 * Scale, 10 * Scale, 30 * Scale}
Stretches == {0, 50, 100, 5000}
SampleTimes == {0, 33, 4999, 5000, 12345}
\* y of a ray direction, one unit of rounding beyond the unit length included
DirYValues == {-DScale - 1, -DScale, 0, DScale, DScale + 1}

\* the divisions of the disk shading and the argument of asin
DiskDivisors ==
    /\ pc = "eval"
    /\ \E L \in CycleTimes, st \in Stretches, time \in SampleTimes, y \in DirYValues :
          LET u == [fullDefaultConfig EXCEPT !.turbulenceCycleTime = L,
                                            !.turbulenceStretch = st]
              c == cyclicTime(time, cycleLength(u))
          IN  fn' = [op |-> "divisors",
                     time |-> time,
                     stretch |-> st,
                     stretchDivisor |-> stretchDivisor(u),
                     cycleDivisor |-> cycleLength(u),
                     cyclicTime |-> c,
                     blendFactor |-> blendFactor(c, cycleLength(u)),
                     asinArg |-> starPhiArgument(<<0, y, 0>>)]
    /\ pc' = "fnDone"
    /\ UNCHANGED <<config, storage, lastOp, uniforms, rayVars, page, anim>>

\* camera poses the camera setup has no guard for: looking straight down
\* and straight up, and a target that coincides with the position
DegeneratePoses ==
    { [pos |-> <<0, 20000, 0>>,   target |-> <<0, 10000, 0>>],
      [pos |-> <<0, -20000, 0>>,  target |-> <<0, -10000, 0>>],
      [pos |-> DefaultCameraPosition, target |-> DefaultCameraPosition] }

\* camForward = normalize(camTarget - camPos);
\* camRight = normalize(cross(worldUp, camForward)).  The normalisation of a
\* zero vector is indeterminate: not a number, or some finite vector.
CameraBasis ==
    /\ pc = "eval"
    /\ \E pose \in CameraPoses \cup DegeneratePoses :
          LET forwardLen == length(VSub(pose.target, pose.pos))
          IN  IF forwardLen = 0
              THEN \E finite \in BOOLEAN :
                      fn' = [op |-> "camera", pose |-> pose,
                             forwardLen |-> 0, rightLen |-> 0, finite |-> finite]
              ELSE LET rightLen == length(cross(worldUp, camForward(pose)))
                   IN  IF rightLen = 0
                       THEN \E finite \in BOOLEAN :
                               fn' = [op |-> "camera", pose |-> pose,
                                      forwardLen |-> forwardLen, rightLen |-> 0,
                                      finite |-> finite]
                       ELSE fn' = [op |-> "camera", pose |-> pose,
                                   forwardLen |-> forwardLen,
                                   rightLen |-> length(camRight(pose)),
                                   finite |-> TRUE]
    /\ pc' = "fnDone"
    /\ UNCHANGED <<config, storage, lastOp, uniforms, rayVars, page, anim>>

\* cycles of the turbulence that are followed
MaxCycles == 2
RotationSpeeds == {300, -300, 20 * Scale}
SampleHitRadii == {3000, 12000}
SampleAngles == {0, 1571}
NoiseLattices == {<<0, 1000, 500, 1000>>, <<1000, 0, 0, 500>>, <<200, 900, 400, 700>>}

\* the blended turbulence one millisecond before, at and one millisecond
\* after the cycle boundary k * cycleLength, and its limit from below: the
\* crossfade at the cyclic time cycleLength, which the remainder never takes
TurbulenceCrossfade ==
    /\ pc = "eval"
    /\ \E L \in CycleTimes \ {0}, k \in 1..MaxCycles, speed \in RotationSpeeds,
          hitR \in SampleHitRadii, angle \in SampleAngles, lattice \in NoiseLattices :
          LET u == [fullDefaultConfig EXCEPT !.turbulenceCycleTime = L,
                                            !.diskRotationSpeed = speed]
              phase(c) == keplerianPhase(c, u, hitR)
          IN  fn' = [op |-> "crossfade", cycle |-> L, k |-> k,
                     before |-> turbulence(lattice, u, hitR, angle, k * L - 1),
                     atBoundary |-> turbulence(lattice, u, hitR, angle, k * L),
                     after |-> turbulence(lattice, u, hitR, angle, k * L + 1),
                     limit |-> turbulenceAt(lattice, u, hitR, angle, L),
                     basisZero |-> turbulenceNoise(lattice, angle + phase(0)),
                     basisCycle |-> turbulenceNoise(lattice, angle + phase(L)),
                     basisTwoCycles |-> turbulenceNoise(lattice, angle + phase(2 * L)),
                     phaseStepBefore |-> Abs(phase(L) - phase(L - 1)),
                     phaseStepAfter |-> Abs(phase(L + 1) - phase(L))]
    /\ pc' = "fnDone"
    /\ UNCHANGED <<config, storage, lastOp, uniforms, rayVars, page, anim>>

\* x to a whole power n >= 0
RECURSIVE IntPow(_, _)
IntPow(x, n) == IF n = 0 THEN One ELSE Mul(x, IntPow(x, n - 1))

\* pow(x, e) for 0 <= x and an exponent e in quarter steps: whole part by
\* repeated product, halves and quarters by square roots
pow(x, e) ==
    Only({Mul(Mul(IntPow(x, e \div One),
                  IF q >= 2 THEN sqrtFix(x) ELSE One),
              IF q % 2 = 1 THEN sqrtFix(sqrtFix(x)) ELSE One)
            : q \in {(e % One) \div (One \div 4)}})

\* temperatures are whole kelvins
OuterTempK == 1500
peakTempK(u) == (u.diskTemperature * 1000) \div Scale
tempFalloff(u, hitR) == pow(Div(u.diskInnerRadius, hitR), u.temperatureFalloff)
tempK(u, hitR) == mix(OuterTempK, peakTempK(u), tempFalloff(u, hitR))

\* ranges of the Peak Temp and Temp Falloff sliders
TemperatureRange == [min |-> 1000, max |-> 50 * Scale]
FalloffRange == [min |-> 250, max |-> 15 * Scale]
DiskTemperatures == {TemperatureRange.min, 2000, fullDefaultConfig.diskTemperature,
                     TemperatureRange.max}
Falloffs == {FalloffRange.min, fullDefaultConfig.temperatureFalloff, One, 2 * One,
             FalloffRange.max}
\* hit radii inside the disk, as distances beyond the inner edge in
\* percent of the disk's width
DiskPercents == {0, 10, 50, 100}
hitRadiusAt(u, percent) ==
    u.diskInnerRadius + ((u.diskOuterRadius - u.diskInnerRadius) * percent) \div 100

\* the blackbody temperature of the disk at two hit radii of one disk
DiskTemperature ==
    /\ pc = "eval"
    /\ \E t \in DiskTemperatures, e \in Falloffs,
          innerR \in {InnerRadiusRange.min, fullDefaultConfig.diskInnerRadius,
                      InnerRadiusRange.max},
          nearP \in DiskPercents, farP \in DiskPercents :
          /\ nearP < farP
          /\ LET u == [fullDefaultConfig EXCEPT !.diskTemperature = t,
                                                !.temperatureFalloff = e,
                                                !.diskInnerRadius = innerR]
             IN  fn' = [op |-> "tempK", diskTemperature |-> t, falloff |-> e,
                        nearR |-> hitRadiusAt(u, nearP),
                        farR |-> hitRadiusAt(u, farP),
                        peak |-> peakTempK(u),
                        near |-> tempK(u, hitRadiusAt(u, nearP)),
                        far |-> tempK(u, hitRadiusAt(u, farP))]
    /\ pc' = "fnDone"
    /\ UNCHANGED <<config, storage, lastOp, uniforms, rayVars, page, anim>>

\* a JSON null
Null == [null |-> TRUE]
\* colour objects of the colour picker and the hex text of each
Orange == [r |-> 2550, g |-> 1275, b |-> 0]
RedOnly == [r |-> 160]
\* what localStorage may hold under the key: nothing, a text that is no
\* object, an object of this version, or one of a version that had the
\* disk colours
StoredItems ==
    { NoStorage,
      [saved |-> TRUE, kind |-> "blocked"],
      [saved |-> TRUE, kind |-> "empty"],
      [saved |-> TRUE, kind |-> "invalid"],
      [saved |-> TRUE, kind |-> "null"],
      [saved |-> TRUE, parsed |-> <<>>],
      [saved |-> TRUE, parsed |-> [diskInnerRadius |-> 4500]],
      [saved |-> TRUE, parsed |-> [starBackgroundColor |-> Orange, stepSize |-> 200]],
      [saved |-> TRUE, parsed |-> [starBackgroundColor |-> RedOnly]],
      [saved |-> TRUE, parsed |-> [starBackgroundColor |-> [hex |-> "#102030"]]],
      [saved |-> TRUE, parsed |-> [starBackgroundColor |-> Null, starsEnabled |-> 0]],
      [saved |-> TRUE, parsed |-> [fullDefaultConfig EXCEPT !.diskOuterRadius = 20000,
                                                            !.nebulaEnabled = One]],
      [saved |-> TRUE, parsed |-> [diskInnerColor |-> [hex |-> "#ff6600"],
                                   turbulenceCycleTime |-> 5000]] }

\* config = loadConfig(defaultConfig) with some item in localStorage
LoadConfig ==
    /\ pc = "eval"
    /\ \E item \in StoredItems :
          fn' = [op |-> "loadConfig", item |-> item,
                 call |-> loadConfigCall(fullDefaultConfig, item)]
    /\ pc' = "fnDone"
    /\ UNCHANGED <<config, storage, lastOp, uniforms, rayVars, page, anim>>

\* colours a configuration may hold, each with the hex text it stands for
SampleColors ==
    { [value |-> [hex |-> "#000000"], hex |-> "#000000"],
      [value |-> [hex |-> "#102030"], hex |-> "#102030"],
      [value |-> Orange, hex |-> "#ff8000"],
      [value |-> RedOnly, hex |-> "#100000"],
      [value |-> [r |-> 2550, g |-> 2550, b |-> 2550], hex |-> "#ffffff"],
      [value |-> [r |-> 94, g |-> 0, b |-> 150], hex |-> "#09000f"] }
\* configurations the bindings can leave behind, the colour aside
SampleConfigs ==
    { fullDefaultConfig,
      [fullDefaultConfig EXCEPT !.diskInnerRadius = InnerRadiusRange.max,
                                !.starsEnabled = 0],
      [fullDefaultConfig EXCEPT !.diskTemperature = TemperatureRange.min,
                                !.nebulaEnabled = One,
                                !.stepSize = 150] }

\* saveConfig(config), then loadConfig(defaultConfig) of the next page load
SaveThenLoad ==
    /\ pc = "eval"
    /\ \E base \in SampleConfigs, c \in SampleColors, before \in StoredItems :
          LET cfg == [base EXCEPT !.starBackgroundColor = c.value]
              item == saveConfig(cfg)
              loaded == loadConfig(fullDefaultConfig, item)
          IN  fn' = [op |-> "saveThenLoad", config |-> cfg, expectedHex |-> c.hex,
                     before |-> before, item |-> item, loaded |-> loaded,
                     again |-> normalizeColorToHex(loaded.starBackgroundColor)]
    /\ pc' = "fnDone"
    /\ UNCHANGED <<config, storage, lastOp, uniforms, rayVars, page, anim>>

FnNext ==
    \/ LoadConfig
    \/ SaveThenLoad
    \/ BendAndStep
    \/ DiskDivisors
    \/ CameraBasis
    \/ TurbulenceCrossfade
    \/ DiskTemperature

FnSpec == FnInit /\ [][FnNext]_vars

(* ------------------------------------------------------------------ *)
(* Properties                                                          *)
(* ------------------------------------------------------------------ *)
originRadius == length(camPos)
captureRadius == Mul(2 * uniforms.blackHoleMass, 1010)
PastLoop == pc \in {"post", "background", "gamma", "done"}
Classified == pc \in {"background", "gamma", "done"}
Blended == pc \in {"gamma", "done"}
CentrePose == [pos |-> DefaultCameraPosition, target |-> DefaultCameraTarget]

\* C1: the ray-marching loop starts at most 64 iterations and every
\* evaluation reaches the stage that returns a pixel.
C1_BoundedTermination ==
    [](i <= 64) /\ <>(pc = "done" /\ pixel.returned)

\* a ray that used the whole iteration budget and returned its pixel
C1_Witness == pc = "done" /\ pixel.returned /\ i = 64 /\ hit.crossed

\* C2: a ray whose origin lies inside 1.01 * (2 * mass) is captured in the
\* first iteration without bending or stepping and gets no background.
C2_CapturedAtOrigin ==
    (originRadius < captureRadius /\ PastLoop) =>
        /\ captured = One
        /\ escaped = 0
        /\ i = 1
        /\ rayPos = camPos
        /\ rayDir = rayDir0
        /\ alpha = 0
        /\ color = 0
        /\ ~background.added
        /\ (pc = "done" => pixel.rgb = 0)

C2_Witness ==
    /\ pc = "done"
    /\ originRadius < captureRadius
    /\ originRadius > 2 * uniforms.blackHoleMass
    /\ captured = One
    /\ uniforms.starsEnabled > Half

\* C3 as stated: a ray whose origin lies beyond r = 100 escapes in the first
\* iteration with opacity 0 and its initial direction, and the returned
\* pixel equals the background field evaluated for that direction.
C3_OutputIsBackground ==
    (originRadius > EscapeRadius /\ originRadius >= captureRadius /\ pc = "done") =>
        /\ escaped = One
        /\ i = 1
        /\ alpha = 0
        /\ rayDir = rayDir0
        /\ background.added
        /\ background.field.dir = rayDir0
        /\ pixel.rgb = background.field.bgColor

\* C3 (amended): such a ray escapes in the first iteration with opacity 0
\* and its initial direction; the colour before gamma correction equals the
\* background field evaluated for that direction, and the returned pixel is
\* that colour raised to 1/2.2.
C3_EscapedAtOrigin ==
    (originRadius > EscapeRadius /\ originRadius >= captureRadius /\ PastLoop) =>
        /\ escaped = One
        /\ captured = 0
        /\ i = 1
        /\ alpha = 0
        /\ rayPos = camPos
        /\ rayDir = rayDir0
        /\ (Blended =>
              /\ background.added
              /\ background.field.dir = rayDir0
              /\ background.weight = One
              /\ color = background.field.bgColor)
        /\ (pc = "done" => pixel.rgb = gamma(background.field.bgColor))

C3_Witness ==
    /\ pc = "done"
    /\ originRadius > EscapeRadius
    /\ escaped = One
    /\ background.field.bgColor > 0
    /\ pixel.rgb # background.field.bgColor

\* C4: after the post-loop step every ray is exactly one of captured and
\* escaped.
C4_ExactlyOneClass ==
    Classified => ((captured > Half) # (escaped > Half))

\* a ray that ran out of iterations and was forced to escaped
C4_Witness == Classified /\ i = 64 /\ captured = 0 /\ escaped = One

\* C5 as stated: an iteration that starts with the ray captured, escaped or
\* with opacity >= 0.99 stops the loop without bending or stepping.
C5_StopsAtOpaque ==
    [][(pc = "loop" /\ i < 64
          /\ (escaped > Half \/ captured > Half \/ alpha >= 990))
       => (pc' = "post" /\ rayPos' = rayPos /\ rayDir' = rayDir)]_vars

\* C5 (amended): an iteration that starts with the ray captured, escaped or
\* with opacity strictly above 0.99 stops the loop without bending or
\* stepping; at opacity exactly 0.99 the loop goes on.
C5_StopsAboveOpaque ==
    [][(pc = "loop" /\ i < 64
          /\ (escaped > Half \/ captured > Half \/ alpha > 990))
       => (/\ pc' = "post"
           /\ rayPos' = rayPos /\ prevPos' = prevPos /\ rayDir' = rayDir
           /\ color' = color /\ alpha' = alpha)]_vars

\* the loop was left through the opacity test
C5_Witness == pc = "post" /\ alpha > 990 /\ captured = 0 /\ escaped = 0 /\ i < 64

\* C6 as stated: a plane crossing is composited exactly when its hit radius
\* lies in [innerRadius, outerRadius).
C6_HalfOpenInterval ==
    [][(pc = "loop" /\ pc' = "loop" /\ hit'.crossed)
       => LET inside == /\ uniforms.diskInnerRadius <= hit'.hitR
                        /\ hit'.hitR < uniforms.diskOuterRadius
          IN  /\ hit'.inDisk = inside
              /\ ~inside => (color' = color /\ alpha' = alpha)]_vars

\* C6 (amended): a plane crossing is composited exactly when its hit radius
\* lies strictly between innerRadius and outerRadius; a hit on either edge
\* or outside leaves colour and opacity unchanged.
C6_OpenInterval ==
    [][(pc = "loop" /\ pc' = "loop" /\ hit'.crossed)
       => LET inside == /\ uniforms.diskInnerRadius < hit'.hitR
                        /\ hit'.hitR < uniforms.diskOuterRadius
          IN  /\ hit'.inDisk = inside
              /\ ~inside => (color' = color /\ alpha' = alpha)]_vars

\* a crossing exactly on the inner edge, rejected
C6_Witness == hit.crossed /\ hit.hitR = uniforms.diskInnerRadius /\ ~hit.inDisk

\* C7: an accepted hit adds hitColor * hitAlpha * remaining to the colour and
\* remaining * hitAlpha to the opacity, remaining being 1 - opacity before
\* the update.
C7_FrontToBack ==
    [][(pc = "loop" /\ pc' = "loop" /\ hit'.inDisk)
       => LET remaining == One - alpha
          IN  /\ color' = color + Mul(Mul(hit'.rgb, hit'.w), remaining)
              /\ alpha' = alpha + Mul(remaining, hit'.w)]_vars

\* a second hit composited under an earlier one
C7_Witness == hit.inDisk /\ hit.alphaBefore > 0 /\ hit.w > 0 /\ color > 0

\* C8: the accumulated opacity stays within [0,1] and never decreases.
C8_OpacityRange ==
    [][0 <= alpha /\ alpha <= alpha' /\ alpha' <= One]_vars

\* two hits whose local opacities add up to more than 1
C8_Witness ==
    hit.inDisk /\ hit.alphaBefore > 0 /\ hit.alphaBefore + hit.w > One /\ alpha <= One

\* C9: the background is blended exactly for escaped rays with opacity
\* below 0.99, sampled with the ray direction after the last bend, made of
\* the background colour plus the enabled fields, and weighted by
\* 1 - opacity.
C9_BackgroundBlend ==
    [][pc = "background"
       => IF escaped > Half /\ alpha < 990
          THEN /\ background'.added
               /\ background'.field.dir = rayDir
               /\ background'.field.starsOn = (uniforms.starsEnabled > Half)
               /\ background'.field.nebulaOn = (uniforms.nebulaEnabled > Half)
               /\ (~background'.field.starsOn /\ ~background'.field.nebulaOn
                     => background'.field.bgColor = uniforms.starBackgroundColor)
               /\ background'.weight = One - alpha
               /\ color' = color + Mul(background'.field.bgColor, One - alpha)
          ELSE /\ ~background'.added
               /\ color' = color]_vars

\* a bent ray that crossed the disk and still shows background
C9_Witness ==
    pc = "done" /\ background.added /\ rayDir # rayDir0 /\ alpha > 0 /\ alpha < 990

\* C10: with the default parameters and the default camera the ray through
\* the centre of the frame is classified captured.
C10_CentreRayCaptured ==
    (/\ Classified
     /\ uniforms = defaultConfig
     /\ camPos = DefaultCameraPosition
     /\ rayDir0 = InitialRayDir(CentrePose, <<0, 0>>))
        => captured > Half

\* rs / (r*r) * step * gravitationalLensing for a given step
BendFor(step) ==
    Mul(Mul(RDiv(RDiv(fn.rs * 10 * DScale, fn.r) * Scale, fn.r), step),
        uniforms.gravitationalLensing)

\* C11 as stated: the factor on the base step is 0.2 at r = rs, is 1.0 at
\* r = 5 * rs and beyond, stays within [0.2, 1.0], and one step serves both
\* the bend and the advance.
C11_FullStepFromFiveRs ==
    (fn.op = "bendAndStep" /\ variant = "adaptive") =>
        /\ (fn.r = fn.rs => fn.factor = 200)
        /\ (fn.r >= 5 * fn.rs => fn.factor = One)
        /\ 200 <= fn.factor /\ fn.factor <= One
        /\ fn.step = Mul(uniforms.stepSize, fn.factor)
        /\ fn.bend = BendFor(fn.step)
        /\ rayPos = VAdd(prevPos, VScale(rayDir, fn.step, DScale))

\* C11 (amended): in the adaptive shader the factor is 0.2 at r = rs, below
\* 1.0 for r < 6 * rs and 1.0 from r = 6 * rs on (5 * rs past the horizon),
\* within [0.2, 1.0] throughout; the fixed-step shader uses the base step
\* itself; in both, one step serves the bend and the advance.
C11_FullStepFromSixRs ==
    fn.op = "bendAndStep" =>
        /\ (fn.r = fn.rs => fn.factor = 200)
        /\ (fn.r >= 6 * fn.rs => fn.factor = One)
        /\ (fn.r < 6 * fn.rs => fn.factor < One)
        /\ 200 <= fn.factor /\ fn.factor <= One
        /\ fn.step = (IF variant = "adaptive"
                      THEN Mul(uniforms.stepSize, fn.factor)
                      ELSE uniforms.stepSize)
        /\ fn.bend = BendFor(fn.step)
        /\ rayPos = VAdd(prevPos, VScale(rayDir, fn.step, DScale))

\* the adaptive step at r = 5 * rs, still short of the base step
C11_Witness ==
    /\ fn.op = "bendAndStep"
    /\ variant = "adaptive"
    /\ fn.r = 5 * fn.rs
    /\ fn.factor > 200 /\ fn.factor < One
    /\ fn.step < uniforms.stepSize
    /\ rayPos # prevPos

\* C12: every divisor of the integrator and the disk shading that can
\* approach zero (r, the turbulence stretch, the cycle length) is away from
\* zero when it is used, the cycle length is never zero, and the argument
\* of asin lies in [-1, 1].
C12_DivisorsClamped ==
    /\ fn.op = "bendAndStep" => fn.r > 0
    /\ fn.op = "divisors" =>
          /\ fn.stretchDivisor >= 100
          /\ fn.cycleDivisor # 0
          /\ fn.cyclicTime.finite
          /\ fn.blendFactor.finite
          /\ -DScale <= fn.asinArg /\ fn.asinArg <= DScale

\* C13: no evaluation normalises a zero-length vector or divides by zero,
\* and the colour is finite, also when the camera looks along world up or
\* its position equals its target.
C13_CameraBasisFinite ==
    fn.op = "camera" =>
        /\ fn.forwardLen > 0
        /\ fn.rightLen > 0
        /\ fn.finite

\* C14: after the UI change callback ran for a key, the shader uniform of
\* that key exists and holds the new value.
C14_EditedKeyHasUniform ==
    lastOp.op = "change" =>
        /\ lastOp.key \in DOMAIN uniforms
        /\ uniforms[lastOp.key] = uniformValue(lastOp.key, config[lastOp.key])

\* C15: applyQualityPreset changes only the stepSize, starsEnabled and
\* nebulaEnabled uniforms, to the values of the named preset, and for a name
\* that is no preset it changes nothing at all.
C15_PresetTouchesThree ==
    [][lastOp'.op = "preset" =>
         /\ DOMAIN uniforms' = DOMAIN uniforms
         /\ \A k \in DOMAIN uniforms \ {"stepSize", "starsEnabled", "nebulaEnabled"} :
               uniforms'[k] = uniforms[k]
         /\ lastOp'.known =>
               \E name \in {"low", "medium", "high", "ultra"} :
                  /\ uniforms'.stepSize = QUALITY_PRESETS[name].stepSize
                  /\ uniforms'.starsEnabled = QUALITY_PRESETS[name].starsEnabled
                  /\ uniforms'.nebulaEnabled = QUALITY_PRESETS[name].nebulaEnabled
         /\ ~lastOp'.known =>
               /\ uniforms' = uniforms
               /\ config' = config
               /\ storage' = storage]_vars

\* the low preset applied over an edited configuration
C15_Witness ==
    /\ lastOp.op = "preset"
    /\ lastOp.known
    /\ uniforms.stepSize = 400
    /\ uniforms.starsEnabled = 0
    /\ config.starsEnabled = One
    /\ uniforms.diskInnerRadius = 5000

\* C16: within one run of the page the time uniform never decreases: a
\* frame adds a delta in [0, 0.033] s to it and no other handler writes it.
C16_TimeMonotone ==
    [][lastOp'.op \notin {"reload", "clear"} =>
         /\ uniforms'.time >= uniforms.time
         /\ lastOp'.op = "frame" => uniforms'.time - uniforms.time \in 0..33
         /\ lastOp'.op # "frame" => uniforms'.time = uniforms.time]_vars

\* a frame that came late, after an earlier frame: its delta is the cap
C16_Witness ==
    /\ lastOp.op = "frame"
    /\ uniforms.time = 2 * FrameCap
    /\ uniforms.cameraTarget # DefaultCameraTarget

\* C20: in every state reached from the defaults by UI edits, resets, saves
\* and reloads, the inner disk radius is below the outer one: in the live
\* configuration, in the uniforms and in the stored configuration.
C20_InnerBelowOuter ==
    /\ config.diskInnerRadius < config.diskOuterRadius
    /\ uniforms.diskInnerRadius < uniforms.diskOuterRadius
    /\ storage.saved =>
          storage.parsed.diskInnerRadius < storage.parsed.diskOuterRadius

\* the two sliders at the ends that face each other, saved and loaded again
C20_Witness ==
    /\ lastOp.op = "reload"
    /\ storage.saved
    /\ config.diskInnerRadius = 5000
    /\ config.diskOuterRadius = 6000
    /\ uniforms.diskInnerRadius = 5000
    /\ uniforms.diskOuterRadius = 6000

\* C18: at a cycle boundary k * cycleTime the blended turbulence has no jump:
\* its limit from below and its value at the boundary both equal the
\* turbulence sampled with time basis cycleTime, and the values one
\* millisecond before and after differ from it by no more than the noise
\* changes over one millisecond of rotation.
C18_NoJumpAtCycleBoundary ==
    fn.op = "crossfade" =>
        /\ fn.atBoundary = fn.basisCycle
        /\ fn.limit = fn.basisCycle
        /\ Abs(fn.before - fn.atBoundary) <= NoiseSlope * (fn.phaseStepBefore + 1)
        /\ Abs(fn.after - fn.atBoundary) <= NoiseSlope * (fn.phaseStepAfter + 1)

\* a boundary where the pattern at time basis 0 and at 2 * cycleTime both
\* differ widely from the one at cycleTime
C18_Witness ==
    /\ fn.op = "crossfade"
    /\ fn.k = 2
    /\ fn.atBoundary = fn.basisCycle
    /\ Abs(fn.basisZero - fn.basisCycle) > 100
    /\ Abs(fn.basisTwoCycles - fn.basisCycle) > 100
    /\ fn.phaseStepBefore > 0

\* C19: for every admissible disk temperature and every falloff exponent
\* above zero, the disk is no hotter at a larger hit radius than at a
\* smaller one, between the inner and the outer radius.
C19_TemperatureNonIncreasing ==
    (pc = "fnDone" /\ fn.op = "tempK") => fn.far <= fn.near

\* C21: loadConfig(defaults) returns a new object with every key of
\* defaults and leaves defaults as it was; with a stored object each stored
\* key takes the place of the default (a colour in its hex form) and every
\* other key keeps the default; with nothing stored, or when reading or
\* parsing fails, the result equals defaults; no exception escapes.
C21_LoadConfigMerges ==
    (pc = "fnDone" /\ fn.op = "loadConfig") =>
        /\ fn.call.fresh
        /\ fn.call.defaultsAfter = fullDefaultConfig
        /\ ~fn.call.escaped
        /\ DOMAIN fullDefaultConfig \subseteq DOMAIN fn.call.value
        /\ IF "parsed" \in DOMAIN fn.item
           THEN /\ \A k \in DOMAIN fn.item.parsed \ COLOR_PROPERTIES :
                      fn.call.value[k] = fn.item.parsed[k]
                /\ \A k \in DOMAIN fn.item.parsed \cap COLOR_PROPERTIES :
                      /\ "hex" \in DOMAIN fn.call.value[k]
                      /\ "hex" \in DOMAIN fn.item.parsed[k]
                            => fn.call.value[k] = fn.item.parsed[k]
                /\ \A k \in DOMAIN fullDefaultConfig \ DOMAIN fn.item.parsed :
                      fn.call.value[k] = fullDefaultConfig[k]
           ELSE fn.call.value = fullDefaultConfig

\* a stored object with a colour object and without most keys is merged
C21_Witness ==
    /\ pc = "fnDone"
    /\ fn.op = "loadConfig"
    /\ "parsed" \in DOMAIN fn.item
    /\ fn.item.parsed = [starBackgroundColor |-> Orange, stepSize |-> 200]
    /\ fn.call.value.starBackgroundColor = [hex |-> "#ff8000"]
    /\ fn.call.value.stepSize = 200
    /\ fn.call.value.diskInnerRadius = fullDefaultConfig.diskInnerRadius

C24_NoFrameBeforeBloom ==
    /\ page.framesWithoutBloom = 0
    /\ page.frames > 0 =>
          /\ page.init = "resolved"
          /\ page.postProcessing
          /\ page.bloomPassNode
          /\ page.lastRender = "postProcessing"
    /\ page.init = "pending" => ~page.requested
    /\ page.init = "rejected" =>
          /\ page.fallback
          /\ page.frames = 0
          /\ ~page.requested

\* frames have run after init() resolved, over a regenerated mesh
C24_Witness ==
    /\ pc = "page"
    /\ page.init = "resolved"
    /\ page.frames = 2
    /\ page.uiBloomNode
    /\ page.created = 2
    /\ uniforms.time = 2 * FrameCap

\* C25: after any sequence of createBlackHole() and regenerate() calls the
\* scene holds exactly one black-hole mesh, the one created last, and every
\* mesh created before it is out of the scene with its material and its
\* geometry disposed.
C25_OneLiveMesh ==
    pc = "page" =>
        /\ page.created >= 1
        /\ page.scene = {page.created}
        /\ page.blackHoleMesh = page.created
        /\ \A m \in 1..(page.created - 1) :
              /\ m \notin page.scene
              /\ m \in page.disposedMaterials
              /\ m \in page.disposedGeometries

\* two regenerations after the first createBlackHole()
C25_Witness ==
    /\ pc = "page"
    /\ page.created = 3
    /\ page.scene = {3}
    /\ page.disposedGeometries = {1, 2}

\* largest difference of two positions along one axis
axisDistance(a, b) ==
    Max2(Abs(a[1] - b[1]), Max2(Abs(a[2] - b[2]), Abs(a[3] - b[3])))
\* what a camera on the path may move in one capped frame
SeamTolerance == One

\* C26: the camera animation loops without a jump: across the frame in
\* which currentTime wraps from just below totalDuration to the start, the
\* camera position and the target stay where they were, up to the travel
\* of one frame.
C26_LoopSeamless ==
    [][(/\ lastOp'.op = "update"
        /\ anim.isPlaying
        /\ anim.sinceStart > 0
        /\ lastOp'.dt <= FrameCap
        /\ anim'.currentTime < anim.currentTime)
       => /\ axisDistance(anim'.cameraPosition, anim.cameraPosition) <= SeamTolerance
          /\ axisDistance(anim'.controlsTarget, anim.controlsTarget) <= SeamTolerance]_vars

\* C27: controls.enabled is true exactly when isPlaying is false; toggle()
\* returns the playing state after the toggle, which is the opposite of the
\* one before; start() while playing changes nothing.
C27_ControlsFollowPlaying ==
    /\ anim.controlsEnabled = ~anim.isPlaying
    /\ [][/\ anim'.controlsEnabled = ~anim'.isPlaying
          /\ lastOp'.op = "toggle" =>
                /\ lastOp'.returned = anim'.isPlaying
                /\ anim'.isPlaying = ~anim.isPlaying
          /\ (lastOp'.op = "start" /\ anim.isPlaying) => anim' = anim]_vars

\* start() was called on an animation that had been playing for a while
C27_Witness ==
    /\ pc = "anim"
    /\ lastOp.op = "start"
    /\ anim.isPlaying
    /\ ~anim.controlsEnabled
    /\ anim.currentTime = 13000 + FrameCap
    /\ anim.sinceStart = 2

\* C28: stop() does not snap the view: the orbit target afterwards is the
\* target the camera was last looking at, which is the target from before
\* start() when no update ran in between, and the camera position is left
\* as it was.
C28_StopKeepsView ==
    [][(lastOp'.op = "stop" /\ anim.isPlaying)
       => /\ anim'.controlsTarget = anim.lookAt
          /\ anim.sinceStart = 0 => anim'.controlsTarget = anim.originalTarget
          /\ anim'.cameraPosition = anim.cameraPosition]_vars

\* C29: an update with deltaTime >= 0 while playing leaves currentTime in
\* [0, totalDuration), selects a keyframe of positive duration, never the
\* last one, with a parameter t in [0, 1); an update while not playing
\* changes neither currentTime nor the camera.
C29_UpdateStaysOnPath ==
    [][lastOp'.op = "update" =>
         IF anim.isPlaying
         THEN /\ anim'.currentTime >= 0
              /\ anim'.currentTime < totalDuration
              /\ lastOp'.info.duration > 0
              /\ lastOp'.info.index < Len(cinematicKeyframes) - 1
              /\ lastOp'.info.localTime >= 0
              /\ lastOp'.t.finite
              /\ lastOp'.t.v >= 0
              /\ lastOp'.t.v < One
         ELSE /\ anim'.currentTime = anim.currentTime
              /\ anim'.cameraPosition = anim.cameraPosition
              /\ anim'.lookAt = anim.lookAt
              /\ anim'.controlsTarget = anim.controlsTarget]_vars

\* the update that wraps the time exactly onto the start of the path
C29_Witness ==
    /\ pc = "anim"
    /\ lastOp.op = "update"
    /\ anim.isPlaying
    /\ anim.sinceStart = 3
    /\ lastOp.dt = FrameCap
    /\ anim.currentTime = 0
    /\ anim.cameraPosition = cinematicKeyframes[1].position

\* the two sides of the disk plane
above(pos) == pos[2] > 0
below(pos) == pos[2] < 0
oppositeSides(a, b) == (above(a) /\ below(b)) \/ (below(a) /\ above(b))
\* one iteration that bends, steps and tests
MarchStep == pc = "loop" /\ pc' = "loop" /\ i' = i + 1

\* C30: every passage of the ray through the disk plane while the opacity
\* is below 0.99 is tested against the disk, whether the ray changes side
\* within one step or lands exactly on y = 0 and leaves it on the other
\* side with the next step; and whenever the test runs the hit parameter
\* lies strictly between 0 and 1.
C30_EveryPassageTested ==
    [][MarchStep =>
         /\ (oppositeSides(rayPos, rayPos') /\ alpha < OpaqueAlpha) => hit'.crossed
         /\ (/\ rayPos[2] = 0
             /\ oppositeSides(prevPos, rayPos')
             /\ alpha < OpaqueAlpha)
               => (hit.crossed \/ hit'.crossed)
         /\ hit'.crossed =>
               /\ 0 < Abs(prevPos'[2])
               /\ Abs(prevPos'[2]) < Abs(rayPos'[2] - prevPos'[2])
               /\ hit'.t >= 0
               /\ hit'.t <= One]_vars

====
